---------------------------- MODULE Spec2Model ----------------------------
(***************************************************************************)
(* A model of "Pascal VOC 2012 Segmentation/utils.py": the segmentation    *)
(* metrics (confusion_matrix, precision_recall, iou, iou_confusion,        *)
(* pixel_accuracy), the colour-table decoding of label images              *)
(* (voc_colormap2label, voc_label_indices, label2image), the paired random *)
(* crop and the VOCSegDataset built on it, and the training loop.          *)
(*                                                                         *)
(* Tensors of class indices are modelled by their row-major flattening     *)
(* (every metric is an elementwise comparison followed by a sum), together *)
(* with their shape.  Real numbers are exact rationals [num, den]; the     *)
(* additive smoothing constant 1e-6 is the rational 1/1000000.             *)
(***************************************************************************)
EXTENDS Integers, Sequences, FiniteSets, TLC

VARIABLES
    \* ---- metrics ----
    shape,        \* shape of predict and of y_true (N, H, W)
    predict,      \* predicted class of each pixel, flattened
    y_true,       \* ground-truth class of each pixel, flattened
    classes,      \* the class count handed to the metrics
    cm_ret,       \* <<>> or <<result of confusion_matrix>>
    pr_ret,       \* <<>> or <<result of precision_recall on cm_ret>>
    iou_ret,      \* <<>> or <<result of iou>>
    iouc_ret,     \* <<>> or <<result of iou_confusion>>
    acc_ret,      \* <<>> or <<result of pixel_accuracy(predict, y_true)>>
    \* ---- label decoding ----
    label_img,      \* an RGB label image, label_img[c][h][w], channels first
    colormap2label, \* <<>> or <<the table built by voc_colormap2label>>
    decoded,        \* <<>> or <<result of voc_label_indices(label_img, table)>>
    recolored,      \* <<>> or <<result of label2image(decoded)>>
    \* ---- paired random crop ----
    crop_feature,   \* the image handed to voc_rand_crop, [c][h][w]
    crop_label,     \* the label handed to voc_rand_crop, [c][h][w]
    crop_size,      \* the requested <<height, width>>
    crop_ret,       \* <<>> or <<result of voc_rand_crop>>
    \* ---- VOCSegDataset ----
    voc_features,   \* the photographs read_voc_images returns, in file order
    voc_labels,     \* the label images read_voc_images returns, in file order
    arg_crop_size,  \* the argument crop_size of the constructor
    self,           \* <<>> or <<the fields of the constructed dataset>>
    getitem_ret,    \* <<>> or <<result of the last __getitem__>>
    len_ret,        \* <<>> or <<result of the last __len__>>
    \* ---- train ----
    pc,             \* the statement of train that runs next
    n_batches,      \* the number of batches the dataloader yields
    batch,          \* the loop variable batch
    training,       \* the mode flag of the model, set by model.train()
    weight,         \* the parameter of the model
    grad,           \* the .grad of the parameter, which backward() adds to
    batch_len,      \* <<>> or <<len(X), the number of samples of the batch>>
    loss_elems,     \* the elementwise losses loss_fn(pred, y) of the batch
    loss,           \* the scalar loss
    loss_grad,      \* d loss / d weight, the gradient that loss.backward() adds
    steps,          \* the calls made so far in the current iteration
    printed         \* the progress lines printed so far

metricVars == <<shape, predict, y_true, classes, cm_ret, pr_ret, iou_ret,
                iouc_ret, acc_ret>>

decodeVars == <<label_img, colormap2label, decoded, recolored>>

cropVars == <<crop_feature, crop_label, crop_size, crop_ret>>

datasetVars == <<voc_features, voc_labels, arg_crop_size, self, getitem_ret, len_ret>>

trainVars == <<pc, n_batches, batch, training, weight, grad, batch_len, loss_elems, loss,
               loss_grad, steps, printed>>

vars == <<metricVars, decodeVars, cropVars, datasetVars, trainVars>>

-----------------------------------------------------------------------------
(* Bounds of the model *)

MaxN == 1
MaxDim == 2
MaxPix == 2
MaxClasses == 2
MaxLabelH == 2
MaxLabelW == 2
MaxImgDim == 2
MaxImages == 2
MaxBatches == 3
MaxBatchLen == 2

-----------------------------------------------------------------------------
(* The parts of the state a specification does not use stay at rest *)

DecodeIdle ==
    /\ label_img = <<>> /\ colormap2label = <<>>
    /\ decoded = <<>> /\ recolored = <<>>

MetricsIdle ==
    /\ shape = <<>> /\ predict = <<>> /\ y_true = <<>> /\ classes = 0
    /\ cm_ret = <<>> /\ pr_ret = <<>> /\ iou_ret = <<>>
    /\ iouc_ret = <<>> /\ acc_ret = <<>>

CropIdle ==
    /\ crop_feature = <<>> /\ crop_label = <<>>
    /\ crop_size = <<>> /\ crop_ret = <<>>

DatasetIdle ==
    /\ voc_features = <<>> /\ voc_labels = <<>> /\ arg_crop_size = <<>>
    /\ self = <<>> /\ getitem_ret = <<>> /\ len_ret = <<>>

TrainIdle ==
    /\ pc = "idle" /\ n_batches = 0 /\ batch = 0 /\ training = FALSE
    /\ weight = 0 /\ grad = 0 /\ batch_len = <<>> /\ loss_elems = <<>> /\ loss = 0
    /\ loss_grad = 0 /\ steps = <<>> /\ printed = <<>>

otherThanMetrics == <<decodeVars, cropVars, datasetVars, trainVars>>
otherThanDecode == <<metricVars, cropVars, datasetVars, trainVars>>
otherThanCrop == <<metricVars, decodeVars, datasetVars, trainVars>>
otherThanDataset == <<metricVars, decodeVars, cropVars, trainVars>>
otherThanTrain == <<metricVars, decodeVars, cropVars, datasetVars>>

-----------------------------------------------------------------------------
(* Exact rational arithmetic, as used by the float expressions *)

RECURSIVE GCD(_, _)
GCD(a, b) == IF b = 0 THEN a ELSE GCD(b, a % b)

Abs(x) == IF x < 0 THEN -x ELSE x

Rat(n, d) == [num |-> n, den |-> d]

\* the canonical form of a rational with a non-zero denominator
RNorm(x) ==
    LET g == GCD(Abs(x.num), Abs(x.den))
        s == IF x.den < 0 THEN -1 ELSE 1
    IN  Rat(s * (x.num \div g), s * (x.den \div g))

RInv(x) == RNorm(Rat(x.den, x.num))

RAdd(x, y) ==
    LET g == GCD(Abs(x.den), Abs(y.den))
    IN  RNorm(Rat(x.num * (y.den \div g) + y.num * (x.den \div g),
                  (x.den \div g) * y.den))

RSub(x, y) == RAdd(x, Rat(-y.num, y.den))

ROne == Rat(1, 1)

\* 1e-6, the default of the parameter smooth, is 1 / SmoothInv
IouSmoothInv == 1000000
PrSmoothInv == 1000000

\* (a + 1/sinv) / (b + 1/sinv) for integer counts a and b
Smoothed(a, b, sinv) == RNorm(Rat(a * sinv + 1, b * sinv + 1))

-----------------------------------------------------------------------------
(* Tensor helpers *)

RECURSIVE Prod(_)
Prod(s) == IF s = <<>> THEN 1 ELSE Head(s) * Prod(Tail(s))

RECURSIVE SumOver(_, _, _)
\* f[lo] + ... + f[hi]
SumOver(f, lo, hi) == IF lo > hi THEN 0 ELSE f[lo] + SumOver(f, lo + 1, hi)

\* torch.sum(torch.logical_and(a == i, b == j))
CountAnd(a, i, b, j) == Cardinality({k \in DOMAIN a : a[k] = i /\ b[k] = j})

\* torch.sum(torch.logical_or(a == i, b == i))
CountOr(a, b, i) == Cardinality({k \in DOMAIN a : a[k] = i \/ b[k] = i})

-----------------------------------------------------------------------------
(* The metrics *)

\* confusion_matrix with prediction and ground truth exchanged
confusion_matrix_transposed(pred, truth, n) ==
    [i \in 0 .. n - 1 |-> [j \in 0 .. n - 1 |-> CountAnd(truth, j, pred, i)]]

\* res[i][j] = number of pixels with y_true == i and pred == j
confusion_matrix(pred, truth, n) ==
    [i \in 0 .. n - 1 |-> [j \in 0 .. n - 1 |-> CountAnd(truth, i, pred, j)]]

\* np.sum(confuse_matrix, axis=0): entry i sums confuse_matrix[k][i] over k
matrix_row_sum(m, n) == [i \in 0 .. n - 1 |-> SumOver([k \in 0 .. n - 1 |-> m[k][i]], 0, n - 1)]

\* np.sum(confuse_matrix, axis=1): entry i sums confuse_matrix[i][k] over k
matrix_col_sum(m, n) == [i \in 0 .. n - 1 |-> SumOver([k \in 0 .. n - 1 |-> m[i][k]], 0, n - 1)]

\* precision_recall with the two axis sums exchanged
precision_recall_swapped(m) ==
    LET n == Cardinality(DOMAIN m)
        rs == matrix_row_sum(m, n)
        cs == matrix_col_sum(m, n)
    IN  [precision |-> [i \in 0 .. n - 1 |-> Smoothed(m[i][i], cs[i], PrSmoothInv)],
         recall    |-> [i \in 0 .. n - 1 |-> Smoothed(m[i][i], rs[i], PrSmoothInv)]]

precision_recall(m) ==
    LET n == Cardinality(DOMAIN m)
        rs == matrix_row_sum(m, n)
        cs == matrix_col_sum(m, n)
    IN  [precision |-> [i \in 0 .. n - 1 |-> Smoothed(m[i][i], rs[i], PrSmoothInv)],
         recall    |-> [i \in 0 .. n - 1 |-> Smoothed(m[i][i], cs[i], PrSmoothInv)]]

\* a[idx:] of a numpy vector a of length n, indexed from 0 again
NpSlice(a, n, idx) == [k \in 0 .. n - idx - 1 |-> a[k + idx]]

\* iou whose union counts only the pixels of class i in the prediction
iou_union_of_prediction(pred, truth, n, ignore_background) ==
    LET idx == IF ignore_background THEN 1 ELSE 0
        v == [i \in 0 .. n - 1 |->
                IF i < idx THEN Rat(0, 1)
                ELSE Smoothed(CountAnd(pred, i, truth, i), CountOr(pred, pred, i),
                              IouSmoothInv)]
    IN  NpSlice(v, n, idx)

iou(pred, truth, n, ignore_background) ==
    LET idx == IF ignore_background THEN 1 ELSE 0
        v == [i \in 0 .. n - 1 |->
                IF i < idx THEN Rat(0, 1)
                ELSE Smoothed(CountAnd(pred, i, truth, i), CountOr(pred, truth, i),
                              IouSmoothInv)]
    IN  NpSlice(v, n, idx)

iou_confusion(pred, truth, n, ignore_background) ==
    LET confuse_matrix == confusion_matrix(pred, truth, n)
        pr == precision_recall(confuse_matrix)
        v == [i \in 0 .. n - 1 |->
                RInv(RSub(RAdd(RInv(pr.precision[i]), RInv(pr.recall[i])), ROne))]
    IN  IF ignore_background THEN NpSlice(v, n, 1) ELSE v

\* the result of pixel_accuracy: a value, or the exception it raises
pixel_accuracy(pshape, pred, tshape, truth) ==
    IF pshape # tshape THEN [err |-> "AssertionError", val |-> Rat(0, 1)]
    ELSE LET total == Prod(pshape)
             correct == Cardinality({k \in DOMAIN pred : pred[k] = truth[k]})
         IN  IF total = 0 THEN [err |-> "ZeroDivisionError", val |-> Rat(0, 1)]
             ELSE [err |-> "", val |-> RNorm(Rat(correct, total))]

-----------------------------------------------------------------------------
(* The metrics as a state machine: inputs are chosen, then each function   *)
(* is called on them and its result kept.                                  *)

Shapes ==
    {s \in {<<n, h, w>> : n \in 1 .. MaxN, h \in 0 .. MaxDim, w \in 0 .. MaxDim} :
        Prod(s) <= MaxPix}

\* the worked example of the specification: classes=3, six pixels
ExampleTruth == <<0, 0, 1, 1, 2, 2>>
ExamplePred == <<0, 1, 1, 1, 2, 0>>

MetricsUnset ==
    /\ cm_ret = <<>> /\ pr_ret = <<>> /\ iou_ret = <<>>
    /\ iouc_ret = <<>> /\ acc_ret = <<>>

\* pixel values range over 0 .. classes: the value classes itself is a label
\* that is no class, such as the void label of a segmentation mask
InitMetrics ==
    /\ MetricsUnset
    /\ DecodeIdle
    /\ CropIdle
    /\ DatasetIdle
    /\ TrainIdle
    /\ \/ /\ classes \in 1 .. MaxClasses
          /\ shape \in Shapes
          /\ predict \in [1 .. Prod(shape) -> 0 .. classes]
          /\ y_true \in [1 .. Prod(shape) -> 0 .. classes]
       \/ /\ classes = 3
          /\ shape = <<6>>
          /\ predict = ExamplePred
          /\ y_true = ExampleTruth

ConfusionMatrix ==
    /\ cm_ret = <<>>
    /\ cm_ret' = <<confusion_matrix(predict, y_true, classes)>>
    /\ UNCHANGED <<shape, predict, y_true, classes, pr_ret, iou_ret, iouc_ret, acc_ret>>
    /\ UNCHANGED otherThanMetrics

PrecisionRecall ==
    /\ cm_ret # <<>>
    /\ pr_ret = <<>>
    /\ pr_ret' = <<precision_recall(cm_ret[1])>>
    /\ UNCHANGED <<shape, predict, y_true, classes, cm_ret, iou_ret, iouc_ret, acc_ret>>
    /\ UNCHANGED otherThanMetrics

Iou ==
    /\ iou_ret = <<>>
    /\ \E ignore_background \in BOOLEAN :
          iou_ret' = <<[ignore_background |-> ignore_background,
                        val |-> iou(predict, y_true, classes, ignore_background)]>>
    /\ UNCHANGED <<shape, predict, y_true, classes, cm_ret, pr_ret, iouc_ret, acc_ret>>
    /\ UNCHANGED otherThanMetrics

IouConfusion ==
    /\ iouc_ret = <<>>
    /\ \E ignore_background \in BOOLEAN :
          iouc_ret' = <<[ignore_background |-> ignore_background,
                         val |-> iou_confusion(predict, y_true, classes, ignore_background)]>>
    /\ UNCHANGED <<shape, predict, y_true, classes, cm_ret, pr_ret, iou_ret, acc_ret>>
    /\ UNCHANGED otherThanMetrics

PixelAccuracy ==
    /\ acc_ret = <<>>
    /\ acc_ret' = <<pixel_accuracy(shape, predict, shape, y_true)>>
    /\ UNCHANGED <<shape, predict, y_true, classes, cm_ret, pr_ret, iou_ret, iouc_ret>>
    /\ UNCHANGED otherThanMetrics

NextMetrics ==
    \/ ConfusionMatrix
    \/ PrecisionRecall
    \/ Iou
    \/ IouConfusion
    \/ PixelAccuracy

SpecMetrics == InitMetrics /\ [][NextMetrics]_vars

-----------------------------------------------------------------------------
(* The colour table and the decoding of label images *)

VOC_COLORMAP ==
    << <<0, 0, 0>>, <<128, 0, 0>>, <<0, 128, 0>>, <<128, 128, 0>>,
       <<0, 0, 128>>, <<128, 0, 128>>, <<0, 128, 128>>, <<128, 128, 128>>,
       <<64, 0, 0>>, <<192, 0, 0>>, <<64, 128, 0>>, <<192, 128, 0>>,
       <<64, 0, 128>>, <<192, 0, 128>>, <<64, 128, 128>>, <<192, 128, 128>>,
       <<0, 64, 0>>, <<128, 64, 0>>, <<0, 192, 0>>, <<128, 192, 0>>,
       <<0, 64, 128>> >>

\* t with entry k set to v; an entry never written is absent from DOMAIN t
Store(t, k, v) == [x \in (DOMAIN t) \cup {k} |-> IF x = k THEN v ELSE t[x]]

\* the entry k of a table made by torch.zeros and written by Store
Lookup(t, k) == IF k \in DOMAIN t THEN t[k] ELSE 0

RECURSIVE colormap2label_loop(_, _)
\* the iterations i, i+1, ... of "for i, colormap in enumerate(VOC_COLORMAP)"
colormap2label_loop(t, i) ==
    IF i >= Len(VOC_COLORMAP) THEN t
    ELSE LET colormap == VOC_COLORMAP[i + 1]
         IN  colormap2label_loop(
                 Store(t, (colormap[1] * 256 + colormap[2]) * 256 + colormap[3], i),
                 i + 1)

\* the empty function: the table of zeros before any entry is written
ZerosTable == [x \in {} |-> 0]

voc_colormap2label == colormap2label_loop(ZerosTable, 0)

Height(img) == Len(img[1])
Width(img) == IF Len(img[1]) = 0 THEN 0 ELSE Len(img[1][1])

\* colormap.permute(1, 2, 0): channels last
Permute120(img) ==
    [h \in 1 .. Height(img) |-> [w \in 1 .. Width(img) |->
        [c \in 1 .. Len(img) |-> img[c][h][w]]]]

\* voc_label_indices reading the channels in the order blue, green, red
voc_label_indices_bgr(img, table) ==
    LET colormap == Permute120(img)
        idx == [h \in 1 .. Height(img) |-> [w \in 1 .. Width(img) |->
                  (colormap[h][w][3] * 256 + colormap[h][w][2]) * 256
                  + colormap[h][w][1]]]
    IN  [h \in 1 .. Height(img) |-> [w \in 1 .. Width(img) |->
            Lookup(table, idx[h][w])]]

\* channel values are bytes widened to int32, so idx is below 2^24 and the
\* int32 arithmetic does not wrap
voc_label_indices(img, table) ==
    LET colormap == Permute120(img)
        idx == [h \in 1 .. Height(img) |-> [w \in 1 .. Width(img) |->
                  (colormap[h][w][1] * 256 + colormap[h][w][2]) * 256
                  + colormap[h][w][3]]]
    IN  [h \in 1 .. Height(img) |-> [w \in 1 .. Width(img) |->
            Lookup(table, idx[h][w])]]

\* label2image that indexes the colour list from 1
label2image_from1(pred) ==
    [h \in 1 .. Len(pred) |-> [w \in 1 .. Len(pred[h]) |->
        VOC_COLORMAP[((pred[h][w] + 1) % Len(VOC_COLORMAP)) + 1]]]

\* colormap[X, :]: the colour of each class index, channels last
label2image(pred) ==
    [h \in 1 .. Len(pred) |-> [w \in 1 .. Len(pred[h]) |->
        VOC_COLORMAP[pred[h][w] + 1]]]

\* colours that are in no entry of VOC_COLORMAP
OtherColors ==
    { <<224, 224, 192>>, <<255, 255, 255>>, <<0, 0, 1>>, <<1, 0, 0>>,
      <<0, 1, 0>>, <<128, 128, 129>> }

Palette == {VOC_COLORMAP[k] : k \in 1 .. Len(VOC_COLORMAP)} \cup OtherColors

\* a label image of height hh and width ww, of colour c2 but for the pixel
\* at spot, of colour c1 (<<0, 0>> is no pixel)
SpotImage(hh, ww, c1, c2, spot) ==
    [c \in 1 .. 3 |-> [h \in 1 .. hh |-> [w \in 1 .. ww |->
        (IF <<h, w>> = spot THEN c1 ELSE c2)[c]]]]

InitDecode ==
    /\ MetricsIdle
    /\ CropIdle
    /\ DatasetIdle
    /\ TrainIdle
    /\ \E hh \in 1 .. MaxLabelH, ww \in 1 .. MaxLabelW, c1 \in Palette, c2 \in Palette :
          \E spot \in ((1 .. hh) \X (1 .. ww)) \cup {<<0, 0>>} :
             label_img = SpotImage(hh, ww, c1, c2, spot)
    /\ colormap2label = <<>>
    /\ decoded = <<>>
    /\ recolored = <<>>

VocColormap2label ==
    /\ colormap2label = <<>>
    /\ colormap2label' = <<voc_colormap2label>>
    /\ UNCHANGED <<label_img, decoded, recolored>>
    /\ UNCHANGED otherThanDecode

VocLabelIndices ==
    /\ colormap2label # <<>>
    /\ decoded = <<>>
    /\ decoded' = <<voc_label_indices(label_img, colormap2label[1])>>
    /\ UNCHANGED <<label_img, colormap2label, recolored>>
    /\ UNCHANGED otherThanDecode

Label2image ==
    /\ decoded # <<>>
    /\ recolored = <<>>
    /\ recolored' = <<label2image(decoded[1])>>
    /\ UNCHANGED <<label_img, colormap2label, decoded>>
    /\ UNCHANGED otherThanDecode

NextDecode ==
    \/ VocColormap2label
    \/ VocLabelIndices
    \/ Label2image

SpecDecode == InitDecode /\ [][NextDecode]_vars

-----------------------------------------------------------------------------
(* The paired random crop *)

\* the photograph number k of height hh and width ww as read_image returns
\* it: three channels of bytes, every position of a channel another value
FeatureImage(k, hh, ww) ==
    [c \in 1 .. 3 |-> [h \in 1 .. hh |-> [w \in 1 .. ww |->
        (40 * k + 13 * c + 5 * h + w) % 256]]]

\* the label number k of height hh and width ww: an RGB image whose pixels
\* are colours of VOC_COLORMAP, every position another colour
LabelImage(k, hh, ww) ==
    [c \in 1 .. 3 |-> [h \in 1 .. hh |-> [w \in 1 .. ww |->
        VOC_COLORMAP[((7 * k + 5 * h + w) % Len(VOC_COLORMAP)) + 1][c]]]]

Min(a, b) == IF a < b THEN a ELSE b

\* RandomCrop.get_params(img, (th, tw)): the rectangles <<i, j, th, tw>> it
\* may return, none when the image is smaller than the request (ValueError)
get_params(img, th, tw) ==
    LET h == Height(img)
        w == Width(img)
    IN  IF h < th \/ w < tw THEN {}
        ELSE IF w = tw /\ h = th THEN {<<0, 0, h, w>>}
        ELSE {<<i, j, th, tw>> : i \in 0 .. h - th, j \in 0 .. w - tw}

\* img[..., top:top+height, left:left+width] for a rectangle inside img
Slice(img, top, left, height, width) ==
    [c \in 1 .. Len(img) |-> [r \in 1 .. height |-> [q \in 1 .. width |->
        img[c][top + r][left + q]]]]

\* the rectangle filled with zeros where it leaves the image
PaddedSlice(img, top, left, height, width) ==
    [c \in 1 .. Len(img) |-> [r \in 1 .. height |-> [q \in 1 .. width |->
        IF top + r <= Height(img) /\ left + q <= Width(img)
        THEN img[c][top + r][left + q] ELSE 0]]]

\* the rectangle cut off at the border of the image
ClippedSlice(img, top, left, height, width) ==
    Slice(img, Min(top, Height(img)), Min(left, Width(img)),
          Min(top + height, Height(img)) - Min(top, Height(img)),
          Min(left + width, Width(img)) - Min(left, Width(img)))

\* torchvision.transforms.functional.crop on a tensor: the results it can
\* give.  A rectangle that leaves the image is padded with zeros by the
\* releases that pad and cut off at the border by the releases that slice.
crop(img, top, left, height, width) ==
    IF top + height <= Height(img) /\ left + width <= Width(img)
    THEN {Slice(img, top, left, height, width)}
    ELSE {PaddedSlice(img, top, left, height, width),
          ClippedSlice(img, top, left, height, width)}

NoImage == <<>>

\* voc_rand_crop that draws one rectangle for the feature and another for
\* the label
voc_rand_crop_two_rects(feature, label, height, width) ==
    IF get_params(feature, height, width) = {}
    THEN {[err |-> "ValueError", rect |-> <<>>, feature |-> NoImage, label |-> NoImage]}
    ELSE UNION {
           { [err |-> "", rect |-> rect, feature |-> f, label |-> l] :
               <<f, l>> \in crop(feature, rect[1], rect[2], rect[3], rect[4])
                            \X UNION {crop(label, r2[1], r2[2], r2[3], r2[4]) :
                                      r2 \in get_params(label, Min(height, Height(label)),
                                                        Min(width, Width(label)))} } :
           rect \in get_params(feature, height, width) }

\* the results voc_rand_crop(feature, label, height, width) can give: the
\* rectangle is drawn from the size of feature and cuts feature and label
voc_rand_crop(feature, label, height, width) ==
    IF get_params(feature, height, width) = {}
    THEN {[err |-> "ValueError", rect |-> <<>>, feature |-> NoImage, label |-> NoImage]}
    ELSE UNION {
           { [err |-> "", rect |-> rect, feature |-> f, label |-> l] :
               <<f, l>> \in crop(feature, rect[1], rect[2], rect[3], rect[4])
                            \X crop(label, rect[1], rect[2], rect[3], rect[4]) } :
           rect \in get_params(feature, height, width) }

\* a feature of any size up to the bound, a label of the same size or one
\* row taller or shorter, and a request of any size up to one beyond the bound
InitCrop ==
    /\ MetricsIdle
    /\ DecodeIdle
    /\ DatasetIdle
    /\ TrainIdle
    /\ \E hh \in 1 .. MaxImgDim, ww \in 1 .. MaxImgDim, dh \in {-1, 0, 1} :
          /\ hh + dh >= 1
          /\ crop_feature = FeatureImage(1, hh, ww)
          /\ crop_label = LabelImage(1, hh + dh, ww)
    /\ crop_size \in (1 .. MaxImgDim + 1) \X (1 .. MaxImgDim + 1)
    /\ crop_ret = <<>>

VocRandCrop ==
    /\ \E r \in voc_rand_crop(crop_feature, crop_label, crop_size[1], crop_size[2]) :
          crop_ret' = <<r>>
    /\ UNCHANGED <<crop_feature, crop_label, crop_size>>
    /\ UNCHANGED otherThanCrop

NextCrop == VocRandCrop

SpecCrop == InitCrop /\ [][NextCrop]_vars

-----------------------------------------------------------------------------
(* VOCSegDataset *)

\* mean and std of torchvision.transforms.Normalize, in thousandths
NormalizeMean == <<485, 456, 406>>
NormalizeStd == <<229, 224, 225>>

\* self.transform(img.float() / 255): (x/255 - mean[c]) / std[c] per channel
normalize_image(img) ==
    [c \in 1 .. Len(img) |-> [h \in 1 .. Height(img) |-> [w \in 1 .. Width(img) |->
        RNorm(Rat(1000 * img[c][h][w] - 255 * NormalizeMean[c],
                  255 * NormalizeStd[c]))]]]

\* does img pass the test of filter for the crop size cs
BigEnough(img, cs) == Height(img) >= cs[1] /\ Width(img) >= cs[2]

RECURSIVE filter(_, _)
\* [img for img in imgs if img.shape[1] >= cs[0] and img.shape[2] >= cs[1]]
filter(imgs, cs) ==
    IF imgs = <<>> THEN <<>>
    ELSE (IF BigEnough(Head(imgs), cs) THEN <<Head(imgs)>> ELSE <<>>)
         \o filter(Tail(imgs), cs)

\* the fields __init__ leaves in the object
VOCSegDataset_init(features, labels, cs) ==
    [crop_size      |-> cs,
     features       |-> [k \in 1 .. Len(filter(features, cs)) |->
                            normalize_image(filter(features, cs)[k])],
     labels         |-> filter(labels, cs),
     colormap2label |-> voc_colormap2label]

NoLabel == <<>>

\* the results __getitem__(idx) can give, for an index that is not negative
getitem(obj, idx) ==
    IF idx >= Len(obj.features) \/ idx >= Len(obj.labels)
    THEN {[idx |-> idx, err |-> "IndexError", feature |-> NoImage, label |-> NoLabel]}
    ELSE { [idx |-> idx, err |-> r.err, feature |-> r.feature,
            label |-> IF r.err = "" THEN voc_label_indices(r.label, obj.colormap2label)
                      ELSE NoLabel] :
           r \in voc_rand_crop(obj.features[idx + 1], obj.labels[idx + 1],
                               obj.crop_size[1], obj.crop_size[2]) }

\* the files of the split: the photographs share one width and have any
\* height up to the bound, the label of a photograph has its size or is one
\* row taller or shorter
InitDataset ==
    /\ MetricsIdle
    /\ DecodeIdle
    /\ CropIdle
    /\ TrainIdle
    /\ \E n \in 0 .. MaxImages :
          \E hs \in [1 .. n -> 1 .. MaxImgDim], ww \in 1 .. MaxImgDim,
             dh \in [1 .. n -> {-1, 0, 1}] :
             /\ \A k \in 1 .. n : hs[k] + dh[k] >= 1
             /\ voc_features = [k \in 1 .. n |-> FeatureImage(k, hs[k], ww)]
             /\ voc_labels = [k \in 1 .. n |-> LabelImage(k, hs[k] + dh[k], ww)]
    /\ arg_crop_size \in (1 .. MaxImgDim) \X (1 .. MaxImgDim)
    /\ self = <<>>
    /\ getitem_ret = <<>>
    /\ len_ret = <<>>

Construct ==
    /\ self = <<>>
    /\ self' = <<VOCSegDataset_init(voc_features, voc_labels, arg_crop_size)>>
    /\ UNCHANGED <<voc_features, voc_labels, arg_crop_size, getitem_ret, len_ret>>
    /\ UNCHANGED otherThanDataset

GetItem ==
    /\ self # <<>>
    /\ \E idx \in 0 .. Len(self[1].features) :
          \E r \in getitem(self[1], idx) : getitem_ret' = <<r>>
    /\ UNCHANGED <<voc_features, voc_labels, arg_crop_size, self, len_ret>>
    /\ UNCHANGED otherThanDataset

DatasetLen ==
    /\ self # <<>>
    /\ len_ret' = <<Len(self[1].features)>>
    /\ UNCHANGED <<voc_features, voc_labels, arg_crop_size, self, getitem_ret>>
    /\ UNCHANGED otherThanDataset

NextDataset ==
    \/ Construct
    \/ GetItem
    \/ DatasetLen

SpecDataset == InitDataset /\ [][NextDataset]_vars

-----------------------------------------------------------------------------
(* train: one pass over the batches of the dataloader.  The model, the     *)
(* loss function and the optimizer are arguments of train: the loss values *)
(* and the gradient of a batch are whatever they compute, drawn here from  *)
(* small sets.  The optimizer is gradient descent with step size 1.        *)

\* progress is printed when batch % 30 == 0
LogEvery == 30

LossVals == {0, 1}
GradVals == {-1, 1}

RECURSIVE SumSeq(_)
\* loss_fn(pred, y).sum()
SumSeq(q) == IF q = <<>> THEN 0 ELSE Head(q) + SumSeq(Tail(q))

\* a zero_grad that leaves the gradient as it is
zero_grad_skipped(g) == g

\* optimizer.zero_grad(): the gradient of the parameter afterwards
zero_grad(g) == 0

\* loss.backward(): the gradient of the loss is added to the stored one
backward(g, dloss) == g + dloss

\* optimizer.step(): the parameter moves against the stored gradient
step(w, g) == w - g

\* train is entered with the gradient an earlier pass or caller left behind
InitTrain ==
    /\ MetricsIdle
    /\ DecodeIdle
    /\ CropIdle
    /\ DatasetIdle
    /\ pc = "start"
    /\ n_batches \in 0 .. MaxBatches
    /\ batch = 0
    /\ training \in BOOLEAN
    /\ weight = 0
    /\ grad \in {0} \cup GradVals
    /\ batch_len = <<>>
    /\ loss_elems = <<>>
    /\ loss = 0
    /\ loss_grad = 0
    /\ steps = <<>>
    /\ printed = <<>>

\* size = len(dataloader.dataset); model.train()
TrainEnter ==
    /\ pc = "start"
    /\ training' = TRUE
    /\ pc' = "fetch"
    /\ UNCHANGED <<n_batches, batch, weight, grad, batch_len, loss_elems, loss, loss_grad,
                   steps, printed>>
    /\ UNCHANGED otherThanTrain

\* the for statement yields the next batch (X, y), moved to the device
FetchBatch ==
    /\ pc = "fetch"
    /\ batch < n_batches
    /\ steps' = <<>>
    /\ pc' = "forward"
    /\ UNCHANGED <<n_batches, batch, training, weight, grad, batch_len, loss_elems, loss,
                   loss_grad, printed>>
    /\ UNCHANGED otherThanTrain

\* the for statement finds no further batch: train returns
TrainReturn ==
    /\ pc = "fetch"
    /\ batch >= n_batches
    /\ pc' = "done"
    /\ UNCHANGED <<n_batches, batch, training, weight, grad, batch_len, loss_elems, loss,
                   loss_grad, steps, printed>>
    /\ UNCHANGED otherThanTrain

\* pred = model(X), one prediction for each of the len(X) samples
Forward ==
    /\ pc = "forward"
    /\ \E len_x \in 1 .. MaxBatchLen : batch_len' = <<len_x>>
    /\ steps' = Append(steps, "forward")
    /\ pc' = "loss"
    /\ UNCHANGED <<n_batches, batch, training, weight, grad, loss_elems, loss,
                   loss_grad, printed>>
    /\ UNCHANGED otherThanTrain

\* loss = loss_fn(pred, y).sum()
Loss ==
    /\ pc = "loss"
    /\ \E e \in [1 .. batch_len[1] -> LossVals], g \in GradVals :
          /\ loss_elems' = e
          /\ loss' = SumSeq(e)
          /\ loss_grad' = g
    /\ steps' = Append(steps, "loss")
    /\ pc' = "zero_grad"
    /\ UNCHANGED <<n_batches, batch, training, weight, grad, batch_len, printed>>
    /\ UNCHANGED otherThanTrain

\* optimizer.zero_grad()
ZeroGrad ==
    /\ pc = "zero_grad"
    /\ grad' = zero_grad(grad)
    /\ steps' = Append(steps, "zero_grad")
    /\ pc' = "backward"
    /\ UNCHANGED <<n_batches, batch, training, weight, batch_len, loss_elems, loss,
                   loss_grad, printed>>
    /\ UNCHANGED otherThanTrain

\* loss.backward()
Backward ==
    /\ pc = "backward"
    /\ grad' = backward(grad, loss_grad)
    /\ steps' = Append(steps, "backward")
    /\ pc' = "step"
    /\ UNCHANGED <<n_batches, batch, training, weight, batch_len, loss_elems, loss,
                   loss_grad, printed>>
    /\ UNCHANGED otherThanTrain

\* optimizer.step()
Step ==
    /\ pc = "step"
    /\ weight' = step(weight, grad)
    /\ steps' = Append(steps, "step")
    /\ pc' = "log"
    /\ UNCHANGED <<n_batches, batch, training, grad, batch_len, loss_elems, loss,
                   loss_grad, printed>>
    /\ UNCHANGED otherThanTrain

\* if batch % 30 == 0: print the loss and batch * len(X); then the next turn
LogAndNext ==
    /\ pc = "log"
    /\ \/ /\ batch % LogEvery = 0
          /\ printed' = Append(printed, <<loss, batch * batch_len[1]>>)
       \/ /\ batch % LogEvery # 0
          /\ printed' = printed
    /\ batch' = batch + 1
    /\ pc' = "fetch"
    /\ UNCHANGED <<n_batches, training, weight, grad, batch_len, loss_elems, loss, loss_grad,
                   steps>>
    /\ UNCHANGED otherThanTrain

NextTrain ==
    \/ TrainEnter
    \/ FetchBatch
    \/ TrainReturn
    \/ Forward
    \/ Loss
    \/ ZeroGrad
    \/ Backward
    \/ Step
    \/ LogAndNext

SpecTrain == InitTrain /\ [][NextTrain]_vars

-----------------------------------------------------------------------------
(* Properties of the metrics *)

\* every pixel of predict and of y_true is a class index below classes
InRange ==
    \A k \in DOMAIN predict : predict[k] \in 0 .. classes - 1 /\ y_true[k] \in 0 .. classes - 1

RECURSIVE Occurrences(_, _)
\* how many entries of the sequence s equal v
Occurrences(s, v) ==
    IF s = <<>> THEN 0
    ELSE (IF Head(s) = v THEN 1 ELSE 0) + Occurrences(Tail(s), v)

RECURSIVE PairOccurrences(_, _, _, _)
\* how many positions k have s[k] = v and t[k] = w
PairOccurrences(s, v, t, w) ==
    IF s = <<>> THEN 0
    ELSE (IF Head(s) = v /\ Head(t) = w THEN 1 ELSE 0)
         + PairOccurrences(Tail(s), v, Tail(t), w)

RowTotal(m, i) == SumOver([j \in 0 .. classes - 1 |-> m[i][j]], 0, classes - 1)
ColTotal(m, j) == SumOver([i \in 0 .. classes - 1 |-> m[i][j]], 0, classes - 1)
GrandTotal(m) == SumOver([i \in 0 .. classes - 1 |-> RowTotal(m, i)], 0, classes - 1)

\* C1: when every value of pred and truth lies in [0, classes), the matrix
\* returned by confusion_matrix is classes x classes, entry [i][j] is the
\* number of pixels with truth i and prediction j, row i sums to the number
\* of pixels with truth i, column j to the number of pixels predicted j, all
\* entries sum to the pixel count, and the worked example gives
\* [[1,1,0],[0,2,0],[1,0,1]].
C1_ConfusionMatrixCounts ==
    (cm_ret # <<>> /\ InRange) =>
        LET m == cm_ret[1] IN
        /\ DOMAIN m = 0 .. classes - 1
        /\ \A i \in 0 .. classes - 1 :
              /\ DOMAIN m[i] = 0 .. classes - 1
              /\ \A j \in 0 .. classes - 1 :
                    m[i][j] = PairOccurrences(y_true, i, predict, j)
              /\ RowTotal(m, i) = Occurrences(y_true, i)
              /\ ColTotal(m, i) = Occurrences(predict, i)
        /\ GrandTotal(m) = Len(predict)
        /\ (predict = ExamplePred /\ y_true = ExampleTruth /\ classes = 3) =>
              /\ m[0] = [j \in 0 .. 2 |-> <<1, 1, 0>>[j + 1]]
              /\ m[1] = [j \in 0 .. 2 |-> <<0, 2, 0>>[j + 1]]
              /\ m[2] = [j \in 0 .. 2 |-> <<1, 0, 1>>[j + 1]]

\* the worked example has been evaluated: an asymmetric matrix
C1_Witness ==
    /\ cm_ret # <<>>
    /\ InRange
    /\ predict = ExamplePred /\ y_true = ExampleTruth /\ classes = 3
    /\ cm_ret[1][0][1] = 1 /\ cm_ret[1][1][0] = 0

\* both IoU computations have run with the same ignore_background
BothIou ==
    /\ iou_ret # <<>>
    /\ iouc_ret # <<>>
    /\ iou_ret[1].ignore_background = iouc_ret[1].ignore_background

\* the two per-class vectors have one length and agree on every class whose
\* union count is non-zero
IouAgree ==
    LET a == iou_ret[1].val
        b == iouc_ret[1].val
        idx == IF iou_ret[1].ignore_background THEN 1 ELSE 0
    IN  /\ DOMAIN a = DOMAIN b
        /\ DOMAIN a = 0 .. classes - idx - 1
        /\ \A k \in DOMAIN a :
              (Occurrences(predict, k + idx) + Occurrences(y_true, k + idx) > 0)
                  => a[k] = b[k]

\* C2 as stated: for every pred and truth, iou and iou_confusion agree
\* class by class wherever the union is non-zero.
C2_AsStated == BothIou => IouAgree

\* C2: for pred and truth whose values all lie in [0, classes), and for both
\* settings of ignore_background, iou and iou_confusion return vectors of
\* the same length that agree on every class whose union count is non-zero.
C2_IouAgreeInRange == (BothIou /\ InRange) => IouAgree

\* both have run on in-range inputs where some class is partly overlapped:
\* predicted on a pixel of another class while also hit correctly elsewhere
C2_Witness ==
    /\ BothIou
    /\ InRange
    /\ \E i \in 0 .. classes - 1 :
          /\ (iou_ret[1].ignore_background => i >= 1)
          /\ PairOccurrences(y_true, i, predict, i) > 0
          /\ Occurrences(predict, i) > PairOccurrences(y_true, i, predict, i)

\* C3: precision[i] = (M[i][i]+smooth)/(sum of column i + smooth) and
\* recall[i] = (M[i][i]+smooth)/(sum of row i + smooth) for the matrix M with
\* row = ground truth and column = prediction; for in-range inputs the
\* column sum is the number of pixels predicted i and the row sum the number
\* of pixels truly labelled i.
C3_PrecisionRecall ==
    pr_ret # <<>> =>
        LET m == cm_ret[1]
            p == pr_ret[1].precision
            r == pr_ret[1].recall
        IN  \A i \in 0 .. classes - 1 :
              /\ p[i] = Smoothed(m[i][i], ColTotal(m, i), PrSmoothInv)
              /\ r[i] = Smoothed(m[i][i], RowTotal(m, i), PrSmoothInv)
              /\ InRange =>
                    /\ p[i] = Smoothed(PairOccurrences(y_true, i, predict, i),
                                       Occurrences(predict, i), PrSmoothInv)
                    /\ r[i] = Smoothed(PairOccurrences(y_true, i, predict, i),
                                       Occurrences(y_true, i), PrSmoothInv)

\* precision and recall were computed for a class that is predicted more
\* often than it occurs, so that column sum and row sum differ
C3_Witness ==
    /\ pr_ret # <<>>
    /\ InRange
    /\ \E i \in 0 .. classes - 1 :
          /\ Occurrences(predict, i) > Occurrences(y_true, i)
          /\ pr_ret[1].precision[i] # pr_ret[1].recall[i]

\* C5: pixel_accuracy(A, A) returns 1.0 for arrays of every shape, the
\* shapes with a zero-length dimension included.
C5_SelfAccuracyIsOne ==
    (acc_ret # <<>> /\ predict = y_true) =>
        /\ acc_ret[1].err = ""
        /\ acc_ret[1].val = ROne

-----------------------------------------------------------------------------
(* Properties of the decoding *)

\* the colour of the pixel (h, w) of the label image
PixelColor(h, w) == <<label_img[1][h][w], label_img[2][h][w], label_img[3][h][w]>>

KnownColors == {VOC_COLORMAP[k] : k \in 1 .. Len(VOC_COLORMAP)}

Pixels == (1 .. Height(label_img)) \X (1 .. Width(label_img))

\* C9: voc_label_indices returns a single-channel image of the height and
\* width of its input with output[h][w] = table[(R*256+G)*256+B]; every
\* value lies in [0, 21); a pixel of the k-th colour of VOC_COLORMAP decodes
\* to k and a pixel of a colour not in VOC_COLORMAP decodes to 0.
C9_DecodeByTable ==
    decoded # <<>> =>
        LET out == decoded[1] IN
        /\ Len(out) = Height(label_img)
        /\ \A h \in 1 .. Height(label_img) : Len(out[h]) = Width(label_img)
        /\ \A p \in Pixels :
              LET h == p[1]
                  w == p[2]
                  rgb == PixelColor(h, w)
              IN  /\ out[h][w] = Lookup(colormap2label[1],
                                        (rgb[1] * 256 + rgb[2]) * 256 + rgb[3])
                  /\ out[h][w] \in 0 .. 20
                  /\ \A k \in 0 .. 20 : rgb = VOC_COLORMAP[k + 1] => out[h][w] = k
                  /\ rgb \notin KnownColors => out[h][w] = 0

\* an image holding both a colour of a class other than background and a
\* colour outside the list has been decoded
C9_Witness ==
    /\ decoded # <<>>
    /\ \E p \in Pixels : PixelColor(p[1], p[2]) = VOC_COLORMAP[21]
    /\ \E p \in Pixels : PixelColor(p[1], p[2]) = <<224, 224, 192>>

\* C4: for a label image whose every pixel has a colour of VOC_COLORMAP,
\* decoding with voc_label_indices and re-encoding with label2image gives
\* back the RGB triple of every pixel; the table built by voc_colormap2label
\* sends the k-th of the 21 colours to k, so colour and class index
\* correspond one to one.
C4_RoundTrip ==
    /\ (recolored # <<>> /\ \A p \in Pixels : PixelColor(p[1], p[2]) \in KnownColors) =>
          /\ Len(recolored[1]) = Height(label_img)
          /\ \A p \in Pixels : recolored[1][p[1]][p[2]] = PixelColor(p[1], p[2])
    /\ colormap2label # <<>> =>
          /\ \A k \in 0 .. 20 :
                LET c == VOC_COLORMAP[k + 1]
                IN  Lookup(colormap2label[1], (c[1] * 256 + c[2]) * 256 + c[3]) = k
          /\ Cardinality(KnownColors) = 21

\* an image of two different known colours, neither the background, has
\* been decoded and coloured again
C4_Witness ==
    /\ recolored # <<>>
    /\ \A p \in Pixels : PixelColor(p[1], p[2]) \in KnownColors
    /\ \E p \in Pixels : PixelColor(p[1], p[2]) = VOC_COLORMAP[2]
    /\ \E p \in Pixels : PixelColor(p[1], p[2]) = VOC_COLORMAP[21]

-----------------------------------------------------------------------------
(* Properties of the crop *)

\* image and label have the same height and width, and the request fits
CropFits ==
    /\ Height(crop_feature) = Height(crop_label)
    /\ Width(crop_feature) = Width(crop_label)
    /\ crop_size[1] <= Height(crop_feature)
    /\ crop_size[2] <= Width(crop_feature)

\* out is the part of img that starts top rows down and left columns in
IsPartAt(out, img, top, left) ==
    \A c \in 1 .. 3 : \A r \in 1 .. crop_size[1] : \A q \in 1 .. crop_size[2] :
        out[c][r][q] = img[c][top + r][left + q]

\* C6: for an image and a label of the same height H and width W and a
\* request with height <= H and width <= W, voc_rand_crop succeeds, both
\* results have exactly the requested height and width, and there is one
\* rectangle inside the bounds of the input from which pixel (r, c) of the
\* cropped image and of the cropped label both come.
C6_SameRectangle ==
    (crop_ret # <<>> /\ CropFits) =>
        LET out == crop_ret[1] IN
        /\ out.err = ""
        /\ Len(out.feature) = 3 /\ Len(out.label) = 3
        /\ Height(out.feature) = crop_size[1] /\ Width(out.feature) = crop_size[2]
        /\ Height(out.label) = crop_size[1] /\ Width(out.label) = crop_size[2]
        /\ \A c \in 1 .. 3 : \A r \in 1 .. crop_size[1] :
              Len(out.feature[c][r]) = crop_size[2] /\ Len(out.label[c][r]) = crop_size[2]
        /\ \E top \in 0 .. Height(crop_feature) - crop_size[1] :
              \E left \in 0 .. Width(crop_feature) - crop_size[2] :
                 /\ IsPartAt(out.feature, crop_feature, top, left)
                 /\ IsPartAt(out.label, crop_label, top, left)

\* a crop smaller than the image was cut away from the top left corner
C6_Witness ==
    /\ crop_ret # <<>>
    /\ CropFits
    /\ crop_size[1] < Height(crop_feature)
    /\ crop_size[2] < Width(crop_feature)
    /\ crop_ret[1].rect[1] > 0 /\ crop_ret[1].rect[2] > 0

-----------------------------------------------------------------------------
(* Properties of the dataset *)

RECURSIVE filter_pairs(_, _, _)
\* a filter that keeps the images of those positions of imgs where both
\* imgs and its partner list are big enough
filter_pairs(imgs, partners, cs) ==
    IF imgs = <<>> THEN <<>>
    ELSE IF partners = <<>> THEN <<>>
    ELSE (IF BigEnough(Head(imgs), cs) /\ BigEnough(Head(partners), cs)
          THEN <<Head(imgs)>> ELSE <<>>)
         \o filter_pairs(Tail(imgs), Tail(partners), cs)

\* C7: after construction the stored features and labels are exactly the
\* input pairs whose image and label both have height and width of at least
\* the crop size: the two lists have one length, and entry k of features
\* and entry k of labels come from the same input pair, in input order.
C7_PairsKeptTogether ==
    self # <<>> =>
        LET keptF == filter_pairs(voc_features, voc_labels, arg_crop_size)
            keptL == filter_pairs(voc_labels, voc_features, arg_crop_size)
        IN  /\ Len(self[1].features) = Len(self[1].labels)
            /\ Len(self[1].features) = Len(keptF)
            /\ \A k \in 1 .. Len(keptF) :
                  /\ self[1].features[k] = normalize_image(keptF[k])
                  /\ self[1].labels[k] = keptL[k]

\* C10: after construction, whatever __getitem__ and __len__ calls were
\* made, the stored features, labels, crop size and colour table are those
\* the constructor stored, the last __getitem__(idx) with 0 <= idx < len
\* succeeded and returned an image and a decoded label of exactly the crop
\* size, and the last __len__ returned the number of stored features.
C10_AccessLeavesDatasetIntact ==
    self # <<>> =>
        /\ self[1] = VOCSegDataset_init(voc_features, voc_labels, arg_crop_size)
        /\ len_ret # <<>> => len_ret[1] = Len(self[1].features)
        /\ (getitem_ret # <<>> /\ getitem_ret[1].idx < Len(self[1].features)) =>
              LET r == getitem_ret[1] IN
              /\ r.err = ""
              /\ Len(r.feature) = 3
              /\ Height(r.feature) = arg_crop_size[1]
              /\ Width(r.feature) = arg_crop_size[2]
              /\ Len(r.label) = arg_crop_size[1]
              /\ \A h \in 1 .. Len(r.label) : Len(r.label[h]) = arg_crop_size[2]

\* every photograph of the split has the height and width of its label
PairsSameSize ==
    \A k \in 1 .. Len(voc_features) :
        /\ Height(voc_features[k]) = Height(voc_labels[k])
        /\ Width(voc_features[k]) = Width(voc_labels[k])

\* on a split whose photographs and labels agree in size the independent
\* filters keep the pairs together
PairsKeptWhenSameSize == PairsSameSize => C7_PairsKeptTogether

\* and every access within range succeeds
AccessIntactWhenSameSize == PairsSameSize => C10_AccessLeavesDatasetIntact

-----------------------------------------------------------------------------
(* Properties of train *)

\* the calls of the iteration have all been made
IterationOver == pc = "log"

\* C8 as stated: the calls of an iteration are forward pass, loss,
\* backpropagation, parameter update and then gradient reset, so that an
\* iteration ends with zeroed gradients.
C8_AsStated ==
    IterationOver =>
        /\ steps = <<"forward", "loss", "backward", "step", "zero_grad">>
        /\ grad = 0

\* C8: the calls of an iteration are forward pass, scalar loss (the sum of
\* the elementwise losses), gradient reset, backpropagation and parameter
\* update, in this order; each backpropagation starts from zeroed gradients,
\* so the gradient the update uses is the gradient of this batch's loss
\* alone, which also stays in place when the iteration ends.
C8_ResetBeforeBackward ==
    /\ IterationOver => steps = <<"forward", "loss", "zero_grad", "backward", "step">>
    /\ pc \in {"zero_grad", "backward", "step", "log"} => loss = SumSeq(loss_elems)
    /\ pc = "backward" => grad = 0
    /\ pc \in {"step", "log"} => grad = loss_grad

\* a later iteration is over although train was entered with a gradient
\* left behind and every iteration left its own
C8_Witness ==
    /\ IterationOver
    /\ batch >= 1
    /\ grad # 0
    /\ Len(printed) = 1

====
